---- MODULE Spec2Model ----
(***************************************************************************)
(* Model of the x86-64 machine code emitter of src/src/assembler.rs: the   *)
(* operand model, the byte emission primitives, the REX prefix, the       *)
(* per-instruction encoders, patch32 and finalize.                        *)
(*                                                                         *)
(* Representation of the machine integers:                                 *)
(*   u8     a number 0..255                                                *)
(*   u32    a pair <<w0, w1>> of 16-bit words, value w0 + 65536*w1         *)
(*   u64    a tuple <<w0, w1, w2, w3>> of 16-bit words, w0 the lowest      *)
(*   usize  a number (buffer offsets stay small)                           *)
(* The buffer `code` is a sequence of u8; the source's index i is the      *)
(* sequence's index i+1.                                                   *)
(***************************************************************************)
EXTENDS Integers, Sequences, FiniteSets, TLC

VARIABLES
    code,      \* Assembler.code, the generated bytes
    status,    \* "ok" | "aborted" (a panic unwound the call) | "finalized"
    out,       \* the boxed slice returned by finalize (<<>> before)
    calls,     \* the caller's log of the calls made so far, in order
    old,       \* Assembler.code at the entry of the last call
    result,    \* the value the last call returned ("unit" for `()`)
    jumps,     \* the offsets the caller recorded from jump_near: pos the value
               \* returned, at the offset the jump instruction starts at,
               \* width the bytes of its displacement
    build      \* "debug" (overflow checks on) | "release" (wrapping)

vars == <<code, status, out, calls, old, result, jumps, build>>

-----------------------------------------------------------------------------
(* Bounds of the model *)

\* the longest call sequence of the general specification
MaxCalls == 3

\* the longest call sequence of the mov/add scenario specification
MaxGolden == 3

-----------------------------------------------------------------------------
(* Registers: the ids the claims name (enum Registers, #[repr(u8)]) *)

Rax == 0
Rcx == 1
Rsp == 4
Rbp == 5
R8 == 8

RegisterIds == 0..15

-----------------------------------------------------------------------------
(* Bit operations on u8 *)

RECURSIVE BitOr(_, _)
BitOr(a, b) ==
    IF a = 0 THEN b
    ELSE IF b = 0 THEN a
    ELSE (IF a % 2 = 1 \/ b % 2 = 1 THEN 1 ELSE 0) + 2 * BitOr(a \div 2, b \div 2)

RECURSIVE BitAnd(_, _)
BitAnd(a, b) ==
    IF a = 0 \/ b = 0 THEN 0
    ELSE (IF a % 2 = 1 /\ b % 2 = 1 THEN 1 ELSE 0) + 2 * BitAnd(a \div 2, b \div 2)

\* the u8 shift `x << n` for n < 8: bits shifted out are lost
Shl8(x, n) == (x * (2 ^ n)) % 256

\* ((v >> (8*k)) & 0xFF) as u8, for a u32 or u64 given as 16-bit words
ByteOf(v, k) ==
    LET w == v[(k \div 2) + 1]
    IN  IF k % 2 = 0 THEN w % 256 ELSE w \div 256

-----------------------------------------------------------------------------
(* enum Operand *)

Register(reg) == [kind |-> "Register", reg |-> reg]
MemoryAndOffset(reg, offset) == [kind |-> "MemoryAndOffset", reg |-> reg, offset |-> offset]
Imm64(v) == [kind |-> "Imm64", imm64 |-> v]
Imm32(v) == [kind |-> "Imm32", imm32 |-> v]
Imm8(v) == [kind |-> "Imm8", imm8 |-> v]

\* mutant of OperandEq: operands never compare equal
OperandEq_never(a, b) == FALSE

\* #[derive(PartialEq)]: same variant and same fields
OperandEq(a, b) == a.kind = b.kind /\ a = b

-----------------------------------------------------------------------------
(* The outcome of a call: the buffer it leaves, whether it returned (ok)   *)
(* or panicked, and the value it returned.                                 *)

Returned(c, r) == [code |-> c, ok |-> TRUE, ret |-> r]
Panicked(c) == [code |-> c, ok |-> FALSE, ret |-> "unit"]

-----------------------------------------------------------------------------
(* Emission primitives *)

\* mutant of emit8: the byte is inserted at the front
emit8_front(c, byte) == <<byte>> \o c

emit8(c, byte) == Append(c, byte)

emit32(c, dword) ==
    c \o <<ByteOf(dword, 0), ByteOf(dword, 1), ByteOf(dword, 2), ByteOf(dword, 3)>>

emit64(c, qword) ==
    c \o <<ByteOf(qword, 0), ByteOf(qword, 1), ByteOf(qword, 2), ByteOf(qword, 3),
           ByteOf(qword, 4), ByteOf(qword, 5), ByteOf(qword, 6), ByteOf(qword, 7)>>

decide(cond, then, alt) == IF cond THEN then ELSE alt

\* mutant of emit_rex_prefix: the roles of the two registers exchanged
emit_rex_prefix_swapped(c, reg1, reg2) ==
    emit8(c, BitOr(BitOr(72, decide(reg1 >= 8, Shl8(1, 2), 0)),
                   decide(reg2 >= 8, Shl8(1, 0), 0)))

emit_rex_prefix(c, reg1, reg2) ==
    emit8(c, BitOr(BitOr(72, decide(reg2 >= 8, Shl8(1, 2), 0)),
                   decide(reg1 >= 8, Shl8(1, 0), 0)))

-----------------------------------------------------------------------------
(* Per-instruction encoders.  Each takes the buffer at entry and returns   *)
(* the outcome of the call.                                                *)

\* mutant of ModRM: the reg and r/m fields exchanged
ModRM_swapped(mode, regfield, rmfield) ==
    BitOr(BitOr(mode, Shl8(BitAnd(rmfield, 7), 3)), BitAnd(regfield, 7))

\* ModRM byte: mode bits | (reg field register & 7) << 3 | (r/m field register & 7)
ModRM(mode, regfield, rmfield) ==
    BitOr(BitOr(mode, Shl8(BitAnd(regfield, 7), 3)), BitAnd(rmfield, 7))

mov(c, dst, src) ==
    IF OperandEq(dst, src) THEN Returned(c, "unit")
    ELSE IF dst.kind = "Register" THEN
        IF src.kind = "Register" THEN
            Returned(emit8(emit8(emit_rex_prefix(c, dst.reg, src.reg), 137),
                           ModRM(192, src.reg, dst.reg)), "unit")
        ELSE IF src.kind = "MemoryAndOffset" THEN
            Returned(emit32(emit8(emit8(emit_rex_prefix(c, src.reg, dst.reg), 139),
                                  ModRM(128, dst.reg, src.reg)), src.offset), "unit")
        ELSE IF src.kind = "Imm64" THEN
            Returned(emit64(emit8(emit_rex_prefix(c, dst.reg, 0),
                                  BitOr(184, Shl8(BitAnd(dst.reg, 7), 3))), src.imm64), "unit")
        ELSE Panicked(c)
    ELSE IF dst.kind = "MemoryAndOffset" THEN
        IF src.kind = "Register" THEN
            Returned(emit32(emit8(emit8(emit_rex_prefix(c, dst.reg, src.reg), 137),
                                  ModRM(128, src.reg, dst.reg)), dst.offset), "unit")
        ELSE Panicked(c)
    ELSE Panicked(c)

add(c, dst, src) ==
    IF dst.kind = "Register" THEN
        IF src.kind = "Register" THEN
            Returned(emit8(emit8(emit_rex_prefix(c, dst.reg, src.reg), 1),
                           ModRM(192, src.reg, dst.reg)), "unit")
        ELSE IF src.kind = "MemoryAndOffset" THEN
            Returned(emit32(emit8(emit8(emit_rex_prefix(c, src.reg, dst.reg), 3),
                                  ModRM(128, dst.reg, src.reg)), src.offset), "unit")
        ELSE IF src.kind = "Imm32" THEN
            Returned(emit32(emit8(emit8(emit_rex_prefix(c, dst.reg, 0), 129),
                                  BitOr(192, BitAnd(dst.reg, 7))), src.imm32), "unit")
        ELSE Panicked(c)
    ELSE Panicked(c)

sub(c, dst, src) ==
    IF dst.kind = "Register" THEN
        IF src.kind = "Register" THEN
            Returned(emit8(emit8(emit_rex_prefix(c, dst.reg, src.reg), 41),
                           ModRM(192, src.reg, dst.reg)), "unit")
        ELSE IF src.kind = "MemoryAndOffset" THEN
            Returned(emit32(emit8(emit8(emit_rex_prefix(c, src.reg, dst.reg), 43),
                                  ModRM(128, dst.reg, src.reg)), src.offset), "unit")
        ELSE IF src.kind = "Imm32" THEN
            Returned(emit32(emit8(emit8(emit_rex_prefix(c, dst.reg, 0), 129),
                                  BitOr(232, BitAnd(dst.reg, 7))), src.imm32), "unit")
        ELSE Panicked(c)
    ELSE Panicked(c)

\* mutant of jump_near: the offset is taken after the displacement is emitted
jump_near_late(c, dst) ==
    IF dst.kind = "Imm8" THEN
        Returned(emit8(emit8(c, 235), dst.imm8), Len(emit8(emit8(c, 235), dst.imm8)))
    ELSE IF dst.kind = "Imm32" THEN
        Returned(emit32(emit8(c, 233), dst.imm32), Len(emit32(emit8(c, 233), dst.imm32)))
    ELSE Panicked(c)

\* mutant of jump_near: the offset is taken before the opcode is emitted
jump_near_start(c, dst) ==
    IF dst.kind = "Imm8" THEN
        Returned(emit8(emit8(c, 235), dst.imm8), Len(c))
    ELSE IF dst.kind = "Imm32" THEN
        Returned(emit32(emit8(c, 233), dst.imm32), Len(c))
    ELSE Panicked(c)

\* returns the offset of the displacement: the buffer length after the opcode
jump_near(c, dst) ==
    IF dst.kind = "Imm8" THEN
        Returned(emit8(emit8(c, 235), dst.imm8), Len(emit8(c, 235)))
    ELSE IF dst.kind = "Imm32" THEN
        Returned(emit32(emit8(c, 233), dst.imm32), Len(emit8(c, 233)))
    ELSE Panicked(c)

push(c, src) ==
    IF src.kind = "Register" THEN
        Returned(emit8(emit_rex_prefix(c, src.reg, 0), BitOr(80, BitAnd(src.reg, 7))), "unit")
    ELSE IF src.kind = "Imm32" THEN
        Returned(emit32(emit8(c, 104), src.imm32), "unit")
    ELSE Panicked(c)

pop(c, dst) ==
    IF dst.kind = "Register" THEN
        Returned(emit8(emit_rex_prefix(c, dst.reg, 0), BitOr(88, BitAnd(dst.reg, 7))), "unit")
    ELSE Panicked(c)

leave(c) == Returned(emit8(c, 201), "unit")

ret(c) == Returned(emit8(c, 195), "unit")

\* u32 `stack_size + 15`: the sum modulo 2^32 and whether it overflowed
AddU32(v, n) ==
    LET lo == v[1] + n
        hi == v[2] + (lo \div 65536)
    IN  [val |-> <<lo % 65536, hi % 65536>>, overflow |-> hi >= 65536]

\* mutant of AlignDown16: the low bits are kept
AlignDown16_none(v) == v

\* u32 `x & !15`
AlignDown16(v) == <<v[1] - (v[1] % 16), v[2]>>

\* push rbp; mov rbp, rsp; and for a non-zero size sub rsp, aligned size.
\* `stack_size + 15` overflows u32 above 0xFFFFFFF0: a panic where overflow
\* checks are on (debug), a wrapped sum where they are off (release).
enter(c, stack_size, b) ==
    LET p == push(c, Register(Rbp))
        m == mov(p.code, Register(Rbp), Register(Rsp))
        s == AddU32(stack_size, 15)
    IN  IF stack_size # <<0, 0>> THEN
            IF s.overflow /\ b = "debug" THEN Panicked(m.code)
            ELSE sub(m.code, Register(Rsp), Imm32(AlignDown16(s.val)))
        ELSE m

\* the four indexed stores in order; the first store past the end panics and
\* the stores before it stay
RECURSIVE PatchFrom(_, _, _, _)
PatchFrom(c, value, offset, k) ==
    IF k = 4 THEN Returned(c, "unit")
    ELSE IF offset + k >= Len(c) THEN Panicked(c)
    ELSE PatchFrom([c EXCEPT ![offset + k + 1] = ByteOf(value, k)], value, offset, k + 1)

\* mutant of patch32: the stores start one byte late
patch32_shifted(c, value, offset) == PatchFrom(c, value, offset + 1, 0)

patch32(c, value, offset) == PatchFrom(c, value, offset, 0)

finalize(c) == c

-----------------------------------------------------------------------------
(* The inputs the calls are drawn from *)

\* every operand kind, every register id in every register position
Offsets32 == {<<0, 0>>, <<48879, 0>>, <<65535, 65535>>}
Values64 == {<<0, 0, 0, 0>>, <<48879, 0, 0, 0>>, <<52719, 35243, 17767, 291>>,
             <<65535, 65535, 65535, 65535>>}
Values32 == {<<0, 0>>, <<48879, 0>>, <<22136, 4660>>, <<65535, 65535>>}
Values8 == {0, 5, 255}

Operands ==
    {Register(r) : r \in RegisterIds}
    \cup {MemoryAndOffset(r, o) : r \in RegisterIds, o \in Offsets32}
    \cup {Imm64(v) : v \in Values64}
    \cup {Imm32(v) : v \in Values32}
    \cup {Imm8(v) : v \in Values8}

\* stack sizes around the 16-byte steps, the 16-bit carry and the u32 maximum
StackSizes ==
    {<<0, 0>>, <<1, 0>>, <<15, 0>>, <<16, 0>>, <<17, 0>>, <<32, 0>>, <<33, 0>>,
     <<48879, 0>>, <<65521, 0>>, <<65535, 0>>, <<0, 1>>, <<65520, 65535>>,
     <<65521, 65535>>, <<65535, 65535>>}

\* the operands of the call sequences of the general specification
SeqOperands ==
    {Register(Rax), Register(R8), Imm32(<<48879, 0>>), Imm8(5)}
SeqStackSizes == {<<0, 0>>, <<17, 0>>}
SeqValues32 == {<<22136, 4660>>, <<65535, 65535>>}

\* the operands of the mov/add scenario
GoldenOperands ==
    {Register(Rax), Register(Rcx), Register(R8), Imm32(<<48879, 0>>), Imm32(<<0, 0>>)}

\* buffers a single call of SpecEnc starts from: empty, after ret(), and
\* after leave(); jump_near(Imm32(0))
StartBufs ==
    {<<>>, ret(<<>>).code, jump_near(leave(<<>>).code, Imm32(<<0, 0>>)).code}

-----------------------------------------------------------------------------
(* The state machine: one action per public method of Assembler *)

Init ==
    /\ code = <<>>
    /\ status = "ok"
    /\ out = <<>>
    /\ calls = <<>>
    /\ old = <<>>
    /\ result = "unit"
    /\ jumps = {}
    /\ build \in {"debug", "release"}

\* a single call on a buffer earlier calls have filled
InitEnc ==
    /\ code \in StartBufs
    /\ status = "ok"
    /\ out = <<>>
    /\ calls = <<>>
    /\ old = code
    /\ result = "unit"
    /\ jumps = {}
    /\ build \in {"debug", "release"}

\* the call c, with outcome r, on a live assembler
Do(c, r) ==
    /\ status = "ok"
    /\ code' = r.code
    /\ status' = IF r.ok THEN "ok" ELSE "aborted"
    /\ calls' = Append(calls, c)
    /\ old' = code
    /\ result' = r.ret
    /\ jumps' = IF c.op = "jump_near" /\ r.ok
                THEN jumps \cup {[pos |-> r.ret, at |-> Len(code),
                                  width |-> IF c.dst.kind = "Imm8" THEN 1 ELSE 4]}
                ELSE jumps
    /\ UNCHANGED <<out, build>>

Mov(D) == \E dst \in D, src \in D :
    Do([op |-> "mov", dst |-> dst, src |-> src], mov(code, dst, src))

Add(D) == \E dst \in D, src \in D :
    Do([op |-> "add", dst |-> dst, src |-> src], add(code, dst, src))

Sub(D) == \E dst \in D, src \in D :
    Do([op |-> "sub", dst |-> dst, src |-> src], sub(code, dst, src))

JumpNear(D) == \E dst \in D :
    Do([op |-> "jump_near", dst |-> dst], jump_near(code, dst))

Enter(S) == \E stack_size \in S :
    Do([op |-> "enter", stack_size |-> stack_size], enter(code, stack_size, build))

Leave == Do([op |-> "leave"], leave(code))

Patch32(V) == \E value \in V, offset \in 0..Len(code) :
    Do([op |-> "patch32", value |-> value, offset |-> offset],
       patch32(code, value, offset))

Ret == Do([op |-> "ret"], ret(code))

Push(D) == \E src \in D :
    Do([op |-> "push", src |-> src], push(code, src))

Pop(D) == \E dst \in D :
    Do([op |-> "pop", dst |-> dst], pop(code, dst))

\* finalize consumes the assembler: no call follows it
Finalize ==
    /\ status = "ok"
    /\ status' = "finalized"
    /\ out' = finalize(code)
    /\ calls' = Append(calls, [op |-> "finalize"])
    /\ old' = code
    /\ result' = finalize(code)
    /\ UNCHANGED <<code, jumps, build>>

\* call sequences of up to MaxCalls encoder calls, then finalize
Next ==
    \/ Len(calls) < MaxCalls /\ Mov(SeqOperands)
    \/ Len(calls) < MaxCalls /\ Add(SeqOperands)
    \/ Len(calls) < MaxCalls /\ Sub(SeqOperands)
    \/ Len(calls) < MaxCalls /\ JumpNear(SeqOperands)
    \/ Len(calls) < MaxCalls /\ Enter(SeqStackSizes)
    \/ Len(calls) < MaxCalls /\ Leave
    \/ Len(calls) < MaxCalls /\ Patch32(SeqValues32)
    \/ Len(calls) < MaxCalls /\ Ret
    \/ Len(calls) < MaxCalls /\ Push(SeqOperands)
    \/ Len(calls) < MaxCalls /\ Pop(SeqOperands)
    \/ Finalize

Spec == Init /\ [][Next]_vars

\* one call, every operand
NextEnc ==
    \/ calls = <<>> /\ Mov(Operands)
    \/ calls = <<>> /\ Add(Operands)
    \/ calls = <<>> /\ Sub(Operands)
    \/ calls = <<>> /\ JumpNear(Operands)
    \/ calls = <<>> /\ Enter(StackSizes)
    \/ calls = <<>> /\ Leave
    \/ calls = <<>> /\ Patch32(Values32)
    \/ calls = <<>> /\ Ret
    \/ calls = <<>> /\ Push(Operands)
    \/ calls = <<>> /\ Pop(Operands)
    \/ calls = <<>> /\ Finalize

SpecEnc == InitEnc /\ [][NextEnc]_vars

\* sequences of up to MaxGolden mov and add calls, then finalize
NextGolden ==
    \/ Len(calls) < MaxGolden /\ Mov(GoldenOperands)
    \/ Len(calls) < MaxGolden /\ Add(GoldenOperands)
    \/ Finalize

SpecGolden == Init /\ [][NextGolden]_vars

-----------------------------------------------------------------------------
(* Vocabulary of the properties *)

last == calls[Len(calls)]

\* the last call made was op
Called(op) == calls # <<>> /\ last.op = op

\* the bytes the last call appended
appended == SubSeq(code, Len(old) + 1, Len(code))

IsPrefix(a, b) == Len(a) <= Len(b) /\ SubSeq(b, 1, Len(a)) = a

\* little-endian bytes of a value given as 16-bit words
LE16(w) == <<w % 256, w \div 256>>
LE32(v) == LE16(v[1]) \o LE16(v[2])
LE64(v) == LE16(v[1]) \o LE16(v[2]) \o LE16(v[3]) \o LE16(v[4])

\* the fields of a REX prefix byte 0100WRXB and of a ModRM byte
IsRex(b) == b \div 16 = 4
RexW(b) == (b \div 8) % 2
RexR(b) == (b \div 4) % 2
RexX(b) == (b \div 2) % 2
RexB(b) == b % 2
ModRMMod(b) == b \div 64
ModRMReg(b) == (b \div 8) % 8
ModRMRm(b) == b % 8
Ext(reg) == IF reg >= 8 THEN 1 ELSE 0

\* the last call changed no byte at an offset outside lo..hi-1 and kept the length
OnlyChanged(lo, hi) ==
    /\ Len(code) = Len(old)
    /\ \A i \in 1..Len(old) : (i - 1 < lo \/ i - 1 >= hi) => code[i] = old[i]

-----------------------------------------------------------------------------
(* C1 *)

GoldenCalls ==
    <<[op |-> "mov", dst |-> Register(Rax), src |-> Register(Rcx)],
      [op |-> "mov", dst |-> Register(Rax), src |-> Register(R8)],
      [op |-> "add", dst |-> Register(Rax), src |-> Imm32(<<48879, 0>>)],
      [op |-> "finalize"]>>

\* C1 as stated: from an empty encoder, mov(Rax, Rcx); mov(Rax, R8);
\* add(Rax, 0xBEEF); finalize yields 48 89 C1, 49 89 C0, 48 81 C0 EF BE 00 00.
C1_GoldenAsStated ==
    calls = GoldenCalls =>
        out = <<72, 137, 193, 73, 137, 192, 72, 129, 192, 239, 190, 0, 0>>

\* C1 amended: from an empty encoder, mov(Rax, Rcx); mov(Rax, R8);
\* add(Rax, 0xBEEF); finalize yields exactly the 13 bytes
\* 48 89 C8, 4C 89 C0, 48 81 C0 EF BE 00 00.
C1_Golden ==
    calls = GoldenCalls =>
        out = <<72, 137, 200, 76, 137, 192, 72, 129, 192, 239, 190, 0, 0>>

C1_Witness == calls = GoldenCalls /\ status = "finalized" /\ Len(out) = 13

-----------------------------------------------------------------------------
(* C2 *)

\* the REX prefix and ModRM byte of the last call's appended bytes carry the
\* register regfield in the reg field (REX.R) and rmfield in the r/m field (REX.B)
RexRoles(regfield, rmfield) ==
    LET rex == appended[1]
        modrm == appended[3]
    IN  /\ IsRex(rex) /\ RexW(rex) = 1 /\ RexX(rex) = 0
        /\ ModRMReg(modrm) = regfield % 8 /\ RexR(rex) = Ext(regfield)
        /\ ModRMRm(modrm) = rmfield % 8 /\ RexB(rex) = Ext(rmfield)

\* the same for the imm32 forms: the reg field holds the opcode extension ext
RexExt(ext, rmfield) ==
    LET rex == appended[1]
        modrm == appended[3]
    IN  /\ IsRex(rex) /\ RexW(rex) = 1 /\ RexX(rex) = 0
        /\ ModRMReg(modrm) = ext /\ RexR(rex) = 0
        /\ ModRMRm(modrm) = rmfield % 8 /\ RexB(rex) = Ext(rmfield)

\* C2: in every register form of mov, add and sub that appends bytes, the first
\* byte appended is the REX prefix 0100WRXB with W=1, X=0, R the extension bit of
\* the register placed in the ModRM reg field and B the extension bit of the
\* register placed in the ModRM r/m field; in the imm32 forms R=0.
C2_RexPrefix ==
    (calls # <<>> /\ last.op \in {"mov", "add", "sub"} /\ status = "ok"
        /\ Len(code) > Len(old)) =>
        LET dst == last.dst
            src == last.src
        IN  /\ IsPrefix(old, code)
            /\ (dst.kind = "Register" /\ src.kind = "Register") =>
                    RexRoles(src.reg, dst.reg)
            /\ (dst.kind = "Register" /\ src.kind = "MemoryAndOffset") =>
                    RexRoles(dst.reg, src.reg)
            /\ (dst.kind = "MemoryAndOffset" /\ src.kind = "Register") =>
                    RexRoles(src.reg, dst.reg)
            /\ (last.op = "add" /\ dst.kind = "Register" /\ src.kind = "Imm32") =>
                    RexExt(0, dst.reg)
            /\ (last.op = "sub" /\ dst.kind = "Register" /\ src.kind = "Imm32") =>
                    RexExt(5, dst.reg)

C2_Witness ==
    /\ Called("sub") /\ status = "ok"
    /\ last.dst = Register(10) /\ last.src.kind = "MemoryAndOffset" /\ last.src.reg = 3
    /\ appended[1] = 76

-----------------------------------------------------------------------------
(* C3 *)

\* C3: mov(reg, imm64) appends exactly 10 bytes: a REX prefix, the opcode
\* 0xB8 | (id & 7), and the 8 bytes of the value in little-endian order.
C3_MovImm64 ==
    (Called("mov") /\ last.dst.kind = "Register" /\ last.src.kind = "Imm64") =>
        /\ status = "ok"
        /\ IsPrefix(old, code)
        /\ Len(appended) = 10
        /\ IsRex(appended[1])
        /\ appended[2] = 184 + (last.dst.reg % 8)
        /\ SubSeq(appended, 3, 10) = LE64(last.src.imm64)

-----------------------------------------------------------------------------
(* C4 *)

\* C4: mov with a memory destination and a memory or immediate source aborts,
\* push and pop with a memory operand abort, and no byte is appended.
C4_InvalidAborts ==
    (\/ /\ Called("mov") /\ last.dst.kind = "MemoryAndOffset"
        /\ last.src.kind \in {"MemoryAndOffset", "Imm64", "Imm32", "Imm8"}
     \/ Called("push") /\ last.src.kind = "MemoryAndOffset"
     \/ Called("pop") /\ last.dst.kind = "MemoryAndOffset") =>
        status = "aborted" /\ code = old

-----------------------------------------------------------------------------
(* C5 *)

\* C5 as stated: patch32(value, offset) with offset inside the buffer completes
\* and leaves value, little-endian, in the 4 bytes at offset..offset+3.
C5_PatchAsStated ==
    (Called("patch32") /\ last.offset < Len(old)) =>
        /\ status = "ok"
        /\ Len(code) >= last.offset + 4
        /\ SubSeq(code, last.offset + 1, last.offset + 4) = LE32(last.value)

\* C5 amended: patch32(value, offset) with offset + 4 <= the buffer's length
\* completes and leaves value, little-endian, in the 4 bytes at offset..offset+3.
C5_PatchRoundTrip ==
    (Called("patch32") /\ last.offset + 4 <= Len(old)) =>
        /\ status = "ok"
        /\ Len(code) >= last.offset + 4
        /\ SubSeq(code, last.offset + 1, last.offset + 4) = LE32(last.value)

C5_Witness ==
    /\ Called("patch32") /\ status = "ok"
    /\ last.offset + 4 = Len(old) /\ last.offset > 0
    /\ SubSeq(old, last.offset + 1, last.offset + 4) # LE32(last.value)

-----------------------------------------------------------------------------
(* C6 *)

\* C6: no encoder operation shortens the buffer; every operation but patch32
\* keeps the old buffer as a prefix of the new one; patch32(value, offset) keeps
\* the length and changes no byte outside offset..offset+3.
C6_AppendOnly ==
    (calls # <<>> /\ last.op # "finalize") =>
        /\ Len(code) >= Len(old)
        /\ last.op # "patch32" => IsPrefix(old, code)
        /\ last.op = "patch32" => OnlyChanged(last.offset, last.offset + 4)

C6_Witness ==
    /\ Len(calls) >= 2
    /\ calls[1].op = "enter"
    /\ Called("patch32") /\ status = "ok"
    /\ code # old /\ last.offset = 1

-----------------------------------------------------------------------------
(* C7 *)

\* C7: on a buffer of length n, jump_near(Imm8(d)) appends 0xEB, d and returns
\* n+1; jump_near(Imm32(d)) appends 0xE9 and d little-endian and returns n+1;
\* any other operand kind aborts with no byte appended.
C7_JumpNear ==
    Called("jump_near") =>
        /\ last.dst.kind = "Imm8" =>
            /\ status = "ok"
            /\ code = old \o <<235, last.dst.imm8>>
            /\ result = Len(old) + 1
        /\ last.dst.kind = "Imm32" =>
            /\ status = "ok"
            /\ code = old \o <<233>> \o LE32(last.dst.imm32)
            /\ result = Len(old) + 1
        /\ last.dst.kind \notin {"Imm8", "Imm32"} =>
            status = "aborted" /\ code = old

C7_Witness ==
    /\ Called("jump_near") /\ last.dst = Imm32(<<22136, 4660>>)
    /\ Len(old) = 6 /\ result = 7 /\ Len(code) = 11

-----------------------------------------------------------------------------
(* C8 *)

\* stack_size rounded up to the next multiple of 16, and whether that fits u32
RoundUp16(v) ==
    IF v[1] % 16 = 0 THEN [val |-> v, fits |-> TRUE]
    ELSE LET lo == v[1] - (v[1] % 16) + 16
         IN  IF lo < 65536 THEN [val |-> <<lo, v[2]>>, fits |-> TRUE]
             ELSE IF v[2] + 1 < 65536 THEN [val |-> <<0, v[2] + 1>>, fits |-> TRUE]
             ELSE [val |-> <<0, 0>>, fits |-> FALSE]

\* the buffer after push(Rbp); mov(Rbp, Rsp) on the buffer c
FramePrologue(c) == mov(push(c, Register(Rbp)).code, Register(Rbp), Register(Rsp)).code

\* the last call, enter(stack_size), appended push(Rbp), mov(Rbp, Rsp) and, for a
\* non-zero size, sub(Rsp, imm32) of the size rounded up to a multiple of 16
EnterRounds ==
    /\ status = "ok"
    /\ RoundUp16(last.stack_size).fits
    /\ Len(FramePrologue(old)) = Len(old) + 5
    /\ last.stack_size = <<0, 0>> => code = FramePrologue(old)
    /\ last.stack_size # <<0, 0>> =>
        code = sub(FramePrologue(old), Register(Rsp),
                   Imm32(RoundUp16(last.stack_size).val)).code

\* C8 as stated: for every 32-bit stack_size, enter appends push(Rbp),
\* mov(Rbp, Rsp) and, when stack_size > 0, sub(Rsp, stack_size rounded up to the
\* next multiple of 16).
C8_EnterAsStated == Called("enter") => EnterRounds

\* C8 amended: the same for every stack_size of at most 0xFFFFFFF0, the values
\* whose rounded size fits 32 bits.
C8_Enter == (Called("enter") /\ RoundUp16(last.stack_size).fits) => EnterRounds

C8_Witness ==
    /\ Called("enter") /\ status = "ok" /\ last.stack_size = <<65521, 0>>
    /\ SubSeq(appended, 6, 12) = <<72, 129, 236, 0, 0, 1, 0>>

-----------------------------------------------------------------------------
(* C9 *)

\* C9: mov(a, a) on registers appends nothing; mov(a, b) with a # b appends
\* exactly 3 bytes: REX, opcode 0x89, ModRM with mod = 11.
C9_MovRegReg ==
    (Called("mov") /\ last.dst.kind = "Register" /\ last.src.kind = "Register") =>
        /\ status = "ok"
        /\ last.dst.reg = last.src.reg => code = old
        /\ last.dst.reg # last.src.reg =>
            /\ IsPrefix(old, code)
            /\ Len(appended) = 3
            /\ IsRex(appended[1])
            /\ appended[2] = 137
            /\ ModRMMod(appended[3]) = 3

C9_Witness ==
    /\ Called("mov") /\ last.dst = Register(12) /\ last.src = Register(12)
    /\ status = "ok" /\ Len(old) = 6 /\ code = old

-----------------------------------------------------------------------------
(* C10 *)

\* the last call, patch32 at the recorded offset of the jump j, returned and
\* changed only displacement bytes of j
PatchedOnly(j) ==
    /\ status = "ok"
    /\ OnlyChanged(j.at + 1, j.at + 1 + j.width)

\* C10 as stated: patch32(value, pos) at an offset returned by jump_near, 8-bit
\* or 32-bit form, completes and changes only that jump's displacement bytes.
C10_PatchJumpAsStated ==
    Called("patch32") =>
        \A j \in jumps : j.pos = last.offset => PatchedOnly(j)

\* C10 amended: patch32(value, pos) at an offset returned by the 32-bit form of
\* jump_near, after any further encoder operations, completes and changes only
\* the 4 displacement bytes of that jump.
C10_PatchJump ==
    Called("patch32") =>
        \A j \in jumps : (j.pos = last.offset /\ j.width = 4) => PatchedOnly(j)

C10_Witness ==
    /\ Len(calls) = 3
    /\ calls[1].op = "jump_near" /\ calls[1].dst.kind = "Imm32"
    /\ calls[2].op = "push"
    /\ Called("patch32") /\ status = "ok"
    /\ \E j \in jumps : j.pos = last.offset /\ j.width = 4
    /\ code # old

====
